---- MODULE Spec2Model ----
(***************************************************************************)
(* Verification model of chipsxp/mcp-apps-demo.                            *)
(*                                                                         *)
(*  - MCPApp: the JSON-RPC-over-postMessage module every MCP App embeds    *)
(*    (.cline/skills/mcp-apps/SKILL.md, "MCP App Communication Module").   *)
(*  - filterTools: the connected-apps tool filter of the MCPAppsMiddleware *)
(*    configuration (.cline/skills/mcp-apps/SKILL.md, "Dynamic Tool        *)
(*    Filtering").                                                         *)
(*  - the MCP server's tool list (mcp-server/server.ts) and the tools/call *)
(*    dispatch (.clinerules/workflows/nextjs-bun-mcp.md).                  *)
(***************************************************************************)
EXTENDS Integers, Sequences, FiniteSets, TLC

\* ------------------------------------------------------------------ bounds

\* sendRequest calls modelled over all channels together
MaxRequests == 2

\* ------------------------------------------------------------- MCPApp state

\* One MCPApp closure per iframe.
Channels == {"A", "B"}

\* JavaScript's undefined: a field the envelope does not carry.
Absent == "undefined"

ToolResultMethod == "ui/notifications/tool-result"

ReadyMethod == "ui/ready"

Methods == {ToolResultMethod, "other"}

Handlers == {"h1", "h2", "hThrows"}

\* the handler whose body throws when it is called
Throws(h) == h = "hThrows"

Results == {"r1", "r2"}

Errors == {"e1"}

TimeoutError == "Request timeout"

ChannelClosed == "ChannelClosed"

VARIABLES
    alive,                \* c -> the iframe's window exists
    listening,            \* c -> window "message" listener registered by init()
    requestId,            \* c -> let requestId
    pendingRequests,      \* c -> Map id -> continuation (index into calls[c])
    notificationHandlers, \* c -> Map method -> handler
    calls,                \* c -> the promises sendRequest returned, in call order
    dispatched,           \* the handler invocation made by the last step, or NoDispatch
    outbox,               \* c -> the envelopes posted to window.parent so far
    rebound               \* c -> the methods whose handler onNotification replaced

appVars == <<alive, listening, requestId, pendingRequests, notificationHandlers,
             calls, dispatched, outbox, rebound>>

\* ------------------------------------- tool filtering and invocation state

VARIABLES
    tools,          \* the tool list of the MCP server: name -> _meta["ui/resourceUri"]
    connectedApps,  \* useConnectionStore: connectedApps
    visible,        \* what the last filterTools call returned, and its context
    lastCall        \* the last tools/call request and its response

toolVars == <<tools, connectedApps, visible, lastCall>>

\* ------------------------------------------- HTTP sessions of the server

VARIABLES
    transports,   \* const transports: session id -> transport
    transport,    \* the StreamableHTTPServerTransport objects: state and sessionId
    process,      \* "running", or "exited" after process.exit(0)
    shutdown,     \* the running SIGINT handlers: the keys of their for-in loops
    response      \* the last HTTP request to /mcp and its answer

httpVars == <<transports, transport, process, shutdown, response>>

\* --------------------------------------------------- flight booking state

VARIABLES
    flightSearches,  \* const flightSearches = new Map(): search id -> search
    bookings,        \* const bookings = new Map(): the bookings stored, in order
    seatMaps,        \* flight id -> the occupied seats generateSeatMap computes
    flightLog,       \* the search ids generated, and what succeeded on each
    flightResult     \* the last call of a flight function and what it returned

flightVars == <<flightSearches, bookings, seatMaps, flightLog, flightResult>>

\* ---------------------------------------------------- hotel booking state

VARIABLES
    hotelSearches,   \* const hotelSearches = new Map(): search id -> search
    hotelBookings,   \* const hotelBookings = new Map(): the bookings stored, in order
    hotelLog,        \* the search ids generated
    hotelResult      \* the last call of a hotel function and what it returned

hotelVars == <<hotelSearches, hotelBookings, hotelLog, hotelResult>>

\* the state of the server's modules
serverVars == <<httpVars, flightVars, hotelVars>>

\* everything but the MCPApp closures
nonAppVars == <<toolVars, serverVars>>

\* everything but the tool state
nonToolVars == <<appVars, serverVars>>

\* everything but the HTTP sessions
nonHttpVars == <<appVars, toolVars, flightVars, hotelVars>>

\* everything but the flight bookings
nonFlightVars == <<appVars, toolVars, httpVars, hotelVars>>

\* everything but the hotel bookings
nonHotelVars == <<appVars, toolVars, httpVars, flightVars>>

vars == <<appVars, toolVars, serverVars>>

NoDispatch == [chan |-> Absent, method |-> Absent, handler |-> Absent,
               uncaught |-> FALSE]

\* an envelope MCPApp posts to window.parent: a request carries an id, a
\* notification none
Outbound(hasId, id, method) == [hasId |-> hasId, id |-> id, method |-> method]

\* The envelopes a parent window can post to the iframe.  An envelope without
\* an id field (data.id === undefined) has hasId = FALSE.  Envelopes with the
\* protocol tag and an id come with and without a method and with every
\* combination of result and error; those without an id come with every
\* method; envelopes with a wrong or missing tag come with an id or a method.
Inbound ==
    LET Env(tag, h, i, m, r, e) ==
            [jsonrpc |-> tag, hasId |-> h, id |-> i, method |-> m,
             result |-> r, error |-> e]
    IN  { Env("2.0", TRUE, i, m, r, e) :
             i \in 1..MaxRequests, m \in {ToolResultMethod, Absent},
             r \in Results \cup {Absent}, e \in Errors \cup {Absent} }
        \cup
        { Env("2.0", FALSE, 1, m, r, Absent) :
             m \in Methods \cup {Absent}, r \in {"r1", Absent} }
        \cup
        { Env(tag, h, 1, m, "r1", Absent) :
             tag \in {"1.0", Absent}, h \in BOOLEAN,
             m \in {ToolResultMethod, Absent} }

\* Map helpers (JavaScript Map.set / Map.delete / Map.has)
MapSet(m, k, v) == [x \in DOMAIN m \cup {k} |-> IF x = k THEN v ELSE m[x]]

MapDelete(m, k) == [x \in DOMAIN m \ {k} |-> m[x]]

MapHas(m, k) == k \in DOMAIN m

EmptyMap == [x \in {} |-> Absent]

\* Calling resolve or reject of a promise: only the first call settles it; n
\* counts the calls.
Settle(p, how, v) ==
    [p EXCEPT !.st  = IF p.st = "pending" THEN how ELSE @,
              !.val = IF p.st = "pending" THEN v ELSE @,
              !.n   = IF @ < 2 THEN @ + 1 ELSE @]

TotalCalls == LET n[S \in SUBSET Channels] ==
                    IF S = {} THEN 0
                    ELSE LET c == CHOOSE x \in S : TRUE
                         IN Len(calls[c]) + n[S \ {c}]
              IN n[Channels]

\* ------------------------------------------- the server at module load

\* the transports the server creates, one per initialize request
Transports == {"t1", "t2"}

NoResponse == [made |-> FALSE, verb |-> Absent, sid |-> Absent, init |-> FALSE,
               status |-> Absent, handed |-> Absent]

\* const transports = {}; no request yet
HttpInit ==
    /\ transports = EmptyMap
    /\ transport = [t \in Transports |-> [state |-> "none", sessionId |-> Absent]]
    /\ process = "running"
    /\ shutdown = <<>>
    /\ response = NoResponse

\* search.selectedSeats before selectSeats stored a list
NoSeats == <<Absent>>

NoResult == [op |-> Absent, searchId |-> Absent, selectedSeats |-> NoSeats,
             success |-> FALSE, message |-> Absent]

NoHotelResult == [op |-> Absent, searchId |-> Absent, success |-> FALSE,
                  message |-> Absent]

\* the seats of the seat maps the model follows, and a seat id of no seat map
Seats == {"1A", "1B"}

\* the flights of a search
Flights == {"F1", "F2"}

\* const flightSearches = new Map(); const bookings = new Map(); the seat
\* map of a flight is a function of its id, the same at every call
FlightInit ==
    /\ flightSearches = EmptyMap
    /\ bookings = <<>>
    /\ seatMaps \in [Flights -> SUBSET Seats]
    /\ flightLog = [issued |-> {}, seated |-> {}]
    /\ flightResult = NoResult

\* the state of the flight module under the other specifications
FlightParked ==
    /\ flightSearches = EmptyMap
    /\ bookings = <<>>
    /\ seatMaps = [f \in Flights |-> {}]
    /\ flightLog = [issued |-> {}, seated |-> {}]
    /\ flightResult = NoResult

\* const hotelSearches = new Map(); const hotelBookings = new Map()
HotelInit ==
    /\ hotelSearches = EmptyMap
    /\ hotelBookings = <<>>
    /\ hotelLog = [issued |-> {}, hotelAfterRoom |-> {}]
    /\ hotelResult = NoHotelResult

\* the state of the server's modules under the MCPApp and tool specifications
ServerParked == HttpInit /\ FlightParked /\ HotelInit

\* the MCPApp closures of the iframes in live; the other iframes do not exist
AppStart(live) ==
    /\ alive = [c \in Channels |-> c \in live]
    /\ listening = [c \in Channels |-> FALSE]
    /\ requestId = [c \in Channels |-> 1]
    /\ pendingRequests = [c \in Channels |-> EmptyMap]
    /\ notificationHandlers = [c \in Channels |-> EmptyMap]
    /\ calls = [c \in Channels |-> <<>>]
    /\ dispatched = NoDispatch
    /\ outbox = [c \in Channels |-> {}]
    /\ rebound = [c \in Channels |-> {}]

\* one iframe
AppInit == AppStart({"A"})

\* MCPApp.init
init(c) ==
    /\ UNCHANGED nonAppVars
    /\ UNCHANGED rebound
    /\ alive[c]
    /\ listening' = [listening EXCEPT ![c] = TRUE]
    /\ outbox' = [outbox EXCEPT ![c] = @ \cup {Outbound(FALSE, 1, ReadyMethod)}]
    /\ dispatched' = NoDispatch
    /\ UNCHANGED <<alive, requestId, pendingRequests, notificationHandlers, calls>>

\* MUTANT of NextId: hands out the smallest id that is not pending, so an id
\* freed by a response or a timeout is allocated again.
NextIdReusingFreed(c) ==
    CHOOSE i \in 1..(MaxRequests + 1) :
        /\ ~MapHas(pendingRequests[c], i)
        /\ \A j \in 1..(i - 1) : MapHas(pendingRequests[c], j)

\* the id sendRequest allocates
NextId(c) == requestId[c]

\* MCPApp.sendRequest
sendRequest(c, method) ==
    /\ UNCHANGED nonAppVars
    /\ UNCHANGED rebound
    /\ alive[c]
    /\ TotalCalls < MaxRequests
    /\ LET id == NextId(c)
           k  == Len(calls[c]) + 1
       IN /\ requestId' = [requestId EXCEPT ![c] = @ + 1]
          /\ calls' = [calls EXCEPT ![c] =
                 Append(@, [id |-> id, st |-> "pending", val |-> Absent,
                            n |-> 0, timer |-> TRUE])]
          /\ pendingRequests' = [pendingRequests EXCEPT ![c] = MapSet(@, id, k)]
          /\ outbox' = [outbox EXCEPT ![c] = @ \cup {Outbound(TRUE, id, method)}]
    /\ dispatched' = NoDispatch
    /\ UNCHANGED <<alive, listening, notificationHandlers>>

\* MCPApp.sendNotification
sendNotification(c, method) ==
    /\ UNCHANGED nonAppVars
    /\ UNCHANGED rebound
    /\ alive[c]
    /\ outbox' = [outbox EXCEPT ![c] = @ \cup {Outbound(FALSE, 1, method)}]
    /\ dispatched' = NoDispatch
    /\ UNCHANGED <<alive, listening, requestId, pendingRequests, notificationHandlers,
                   calls>>

\* MUTANT of onNotification: a handler already bound to the method is kept;
\* the new one is bound only when the method has none.
onNotificationKeepFirst(c, method, handler) ==
    /\ UNCHANGED nonAppVars
    /\ alive[c]
    /\ notificationHandlers' =
           [notificationHandlers EXCEPT ![c] =
               IF MapHas(@, method) THEN @ ELSE MapSet(@, method, handler)]
    /\ rebound' = [rebound EXCEPT ![c] =
           IF MapHas(notificationHandlers[c], method) THEN @ \cup {method} ELSE @]
    /\ dispatched' = NoDispatch
    /\ UNCHANGED outbox
    /\ UNCHANGED <<alive, listening, requestId, pendingRequests, calls>>

\* MCPApp.onNotification
onNotification(c, method, handler) ==
    /\ UNCHANGED nonAppVars
    /\ alive[c]
    /\ notificationHandlers' =
           [notificationHandlers EXCEPT ![c] = MapSet(@, method, handler)]
    /\ rebound' = [rebound EXCEPT ![c] =
           IF MapHas(notificationHandlers[c], method) THEN @ \cup {method} ELSE @]
    /\ dispatched' = NoDispatch
    /\ UNCHANGED outbox
    /\ UNCHANGED <<alive, listening, requestId, pendingRequests, calls>>

\* "Handle responses" branch of handleMessage
IsResponseFor(c, data) ==
    /\ data.hasId
    /\ MapHas(pendingRequests[c], data.id)

\* "Handle notifications" branch of handleMessage
IsNotification(data) ==
    /\ ~data.hasId
    /\ data.method # Absent

\* MUTANT of handleMessage: one pending-request table for all iframes: a
\* response settles the request with its id of whichever channel has one.
handleMessageSharedTable(c, data) ==
    /\ UNCHANGED nonAppVars
    /\ UNCHANGED rebound
    /\ alive[c]
    /\ listening[c]
    /\ UNCHANGED outbox
    /\ dispatched' = NoDispatch
    /\ UNCHANGED <<alive, listening, requestId, notificationHandlers>>
    /\ IF /\ data.jsonrpc = "2.0"
          /\ data.hasId
          /\ \E d \in Channels : MapHas(pendingRequests[d], data.id)
       THEN LET d == CHOOSE x \in Channels : MapHas(pendingRequests[x], data.id)
                k == pendingRequests[d][data.id]
            IN /\ pendingRequests' =
                      [pendingRequests EXCEPT ![d] = MapDelete(@, data.id)]
               /\ calls' = [calls EXCEPT ![d][k] =
                      IF data.error # Absent
                      THEN Settle(@, "rejected", data.error)
                      ELSE Settle(@, "resolved", data.result)]
       ELSE UNCHANGED <<pendingRequests, calls>>

\* MUTANT of handleMessage: a response settles the oldest pending request
\* (matching by arrival order) instead of the one its id names.
handleMessageByArrival(c, data) ==
    /\ UNCHANGED nonAppVars
    /\ UNCHANGED rebound
    /\ alive[c]
    /\ listening[c]
    /\ UNCHANGED outbox
    /\ dispatched' = NoDispatch
    /\ UNCHANGED <<alive, listening, requestId, notificationHandlers>>
    /\ IF data.jsonrpc = "2.0" /\ data.hasId /\ DOMAIN pendingRequests[c] # {}
       THEN LET i == CHOOSE x \in DOMAIN pendingRequests[c] :
                        \A y \in DOMAIN pendingRequests[c] : x <= y
                k == pendingRequests[c][i]
            IN /\ pendingRequests' = [pendingRequests EXCEPT ![c] = MapDelete(@, i)]
               /\ calls' = [calls EXCEPT ![c][k] =
                      IF data.error # Absent
                      THEN [@ EXCEPT !.st = "rejected", !.val = data.error, !.n = 1]
                      ELSE [@ EXCEPT !.st = "resolved", !.val = data.result, !.n = 1]]
       ELSE UNCHANGED <<pendingRequests, calls>>

\* MCPApp.handleMessage, run by the window's "message" listener
handleMessage(c, data) ==
    /\ UNCHANGED nonAppVars
    /\ UNCHANGED rebound
    /\ alive[c]
    /\ listening[c]
    /\ UNCHANGED outbox
    /\ UNCHANGED <<alive, listening, requestId, notificationHandlers>>
    /\ IF data.jsonrpc # "2.0"
       THEN /\ dispatched' = NoDispatch
            /\ UNCHANGED <<pendingRequests, calls>>
       ELSE /\ IF IsResponseFor(c, data)
               THEN LET k == pendingRequests[c][data.id]
                    IN /\ pendingRequests' =
                              [pendingRequests EXCEPT ![c] = MapDelete(@, data.id)]
                       /\ calls' = [calls EXCEPT ![c][k] =
                              IF data.error # Absent
                              THEN Settle(@, "rejected", data.error)
                              ELSE Settle(@, "resolved", data.result)]
               ELSE UNCHANGED <<pendingRequests, calls>>
            /\ IF IsNotification(data) /\ MapHas(notificationHandlers[c], data.method)
               THEN dispatched' =
                        [chan |-> c, method |-> data.method,
                         handler |-> notificationHandlers[c][data.method],
                         uncaught |-> Throws(notificationHandlers[c][data.method])]
               ELSE dispatched' = NoDispatch

\* MUTANT of timeout: the sendRequest of .cline/library/TECH-NOTES.md, which
\* arms no rejection: the timer passes and the request stays pending.
timeoutWithoutReject(c, k) ==
    /\ UNCHANGED nonAppVars
    /\ UNCHANGED rebound
    /\ alive[c]
    /\ k \in 1..Len(calls[c])
    /\ calls[c][k].timer
    /\ calls' = [calls EXCEPT ![c][k].timer = FALSE]
    /\ dispatched' = NoDispatch
    /\ UNCHANGED outbox
    /\ UNCHANGED <<alive, listening, requestId, pendingRequests, notificationHandlers>>

\* the setTimeout callback of sendRequest call k
timeout(c, k) ==
    /\ UNCHANGED nonAppVars
    /\ UNCHANGED rebound
    /\ alive[c]
    /\ k \in 1..Len(calls[c])
    /\ calls[c][k].timer
    /\ LET id == calls[c][k].id
       IN IF MapHas(pendingRequests[c], id)
          THEN /\ pendingRequests' =
                      [pendingRequests EXCEPT ![c] = MapDelete(@, id)]
               /\ calls' = [calls EXCEPT ![c][k] =
                      [Settle(@, "rejected", TimeoutError) EXCEPT !.timer = FALSE]]
          ELSE /\ calls' = [calls EXCEPT ![c][k].timer = FALSE]
               /\ UNCHANGED pendingRequests
    /\ dispatched' = NoDispatch
    /\ UNCHANGED outbox
    /\ UNCHANGED <<alive, listening, requestId, notificationHandlers>>

\* The iframe is removed (detach, navigation away).  MCPApp registers no
\* unload hook and exports no close: the window goes away with its listener
\* and timers, and the closure's maps are left as they are.
unload(c) ==
    /\ UNCHANGED nonAppVars
    /\ UNCHANGED rebound
    /\ alive[c]
    /\ alive' = [alive EXCEPT ![c] = FALSE]
    /\ listening' = [listening EXCEPT ![c] = FALSE]
    /\ dispatched' = NoDispatch
    /\ UNCHANGED outbox
    /\ UNCHANGED <<requestId, pendingRequests, notificationHandlers, calls>>

\* ------------------------------------------------------------ filterTools

\* longest resource URI of the extra tool, in pieces
MaxUriLen == 5

Slash == "/"

\* A resource URI is a string.  It is modelled as the sequence of its pieces:
\* the text "ui:", one "/" character, or a run of other characters.
UriPieces == {"ui:", Slash, "flights", "x"}

Uris == UNION {[1..n -> UriPieces] : n \in 0..MaxUriLen}

\* _meta carries no "ui/resourceUri"
NoUri == <<"undefined">>

FlightsUri == <<"ui:", Slash, Slash, "flights", Slash, "flights-app.html">>

HotelsUri == <<"ui:", Slash, Slash, "hotels", Slash, "hotels-app.html">>

TradingUri == <<"ui:", Slash, Slash, "trading", Slash, "trading-app.html">>

KanbanUri == <<"ui:", Slash, Slash, "kanban", Slash, "kanban-app.html">>

\* the app ids the user connects and disconnects
AppIds == {"flights", "hotels"}

\* tools the MCP server registers, with the resource URI of their _meta
ServerTools ==
    [n \in {"search-flights", "select-flight", "select-seats", "book-flight",
            "search-hotels", "select-hotel", "select-room", "book-hotel",
            "create-portfolio", "execute-trade", "refresh-prices",
            "create-board", "move-card", "add-card", "update-card",
            "delete-card"} |->
        CASE n = "search-flights"   -> FlightsUri
          [] n = "search-hotels"    -> HotelsUri
          [] n = "create-portfolio" -> TradingUri
          [] n = "create-board"     -> KanbanUri
          [] OTHER                  -> NoUri]

\* the tool list handed to filterTools: the server's tools and one more tool
\* whose resource URI is u
ToolList(u) ==
    [n \in DOMAIN ServerTools \cup {"extra-tool"} |->
        IF n = "extra-tool" THEN u ELSE ServerTools[n]]

\* !resourceUri: undefined and the empty string are falsy
Falsy(u) == u = NoUri \/ u = <<>>

\* the regular expression /ui:\/\/([^/]+)/ matches at piece p of u
MatchesAt(u, p) ==
    /\ p + 3 <= Len(u)
    /\ u[p] = "ui:"
    /\ u[p + 1] = Slash
    /\ u[p + 2] = Slash
    /\ u[p + 3] # Slash

\* the last piece of the run of non-"/" pieces that starts at piece i
RunEnd(u, i) ==
    CHOOSE j \in i..Len(u) :
        /\ \A x \in i..j : u[x] # Slash
        /\ j = Len(u) \/ u[j + 1] = Slash

\* resourceUri.match(/ui:\/\/([^/]+)/)?.[1]: the capture group of the
\* leftmost match, as <<TRUE, text>>, or <<FALSE, _>> without a match
AppIdOf(u) ==
    IF \E p \in 1..Len(u) : MatchesAt(u, p)
    THEN LET p == CHOOSE q \in 1..Len(u) :
                     MatchesAt(u, q) /\ \A r \in 1..(q - 1) : ~MatchesAt(u, r)
         IN <<TRUE, SubSeq(u, p + 3, RunEnd(u, p + 3))>>
    ELSE <<FALSE, <<>>>>

\* the callback of tools.filter in filterTools
KeepTool(u, apps) ==
    IF Falsy(u) THEN TRUE
    ELSE LET m == AppIdOf(u)
         IN m[1] /\ \E a \in apps : m[2] = <<a>>

\* filterTools(tools, context), with connectedApps = context.properties.connectedApps
filterTools(ts, apps) == {n \in DOMAIN ts : KeepTool(ts[n], apps)}

NotFiltered == [done |-> FALSE, ctx |-> {}, tools |-> {}, before |-> {}]

\* a tool result without the field: content or structuredContent undefined
NoField == <<Absent>>

NoCall == [made |-> FALSE, name |-> Absent, kind |-> Absent, error |-> Absent,
           executed |-> FALSE, content |-> NoField, structuredContent |-> NoField]

\* the airport codes of the mock airport database that calls name
Airports == {"JFK", "LAX"}

\* the arguments of a tools/call request: the airport codes given as origin and
\* destination ("XXX" is no airport), and whether the other fields the
\* tool's inputSchema requires are there, with the types it requires
Args == [origin : Airports \cup {"XXX"}, destination : Airports \cup {"XXX"},
         complete : BOOLEAN]

\* the arguments satisfy the tool's inputSchema (origin and destination are
\* any strings)
ArgsValid(args) == args.complete

\* the handlers that wrap their domain function in try/catch
CatchingTools == {"search-flights", "search-hotels"}

\* the handlers that test the domain function's result with if (!result)
NullCheckingTools == {"select-flight", "select-hotel", "refresh-prices"}

\* the handlers that test result.success
SuccessCheckingTools ==
    {"book-flight", "book-hotel", "execute-trade", "move-card", "add-card",
     "update-card", "delete-card"}

\* the handlers with one return statement
SinglePathTools == {"select-seats", "select-room", "create-portfolio", "create-board"}

\* MUTANT of IsAirport: an airport database without LAX.
IsAirportButLAX(code) == code = "JFK"

\* getAirportByCode(code) finds an airport
IsAirport(code) == code \in Airports

\* what the tool's domain function does with the arguments: searchFlights
\* throws for an origin or destination that is no airport; the other
\* functions depend on stored searches, portfolios and boards
DomainOutcomes(name, args) ==
    CASE name = "search-flights" ->
             IF IsAirport(args.origin) /\ IsAirport(args.destination)
             THEN {"returns"} ELSE {"throws"}
      [] name = "search-hotels" -> {"returns", "throws"}
      [] name \in NullCheckingTools -> {"returns", "null"}
      [] name \in SuccessCheckingTools -> {"returns", "fails"}
      [] OTHER -> {"returns"}

ToolResult(texts, structured) == [content |-> texts, structuredContent |-> structured]

\* MUTANT of ToolHandler: the failure branches return the text only, as the
\* search-flights sketch of the workflow document does.
ToolHandlerTextOnFailure(name, args, outcome) ==
    IF outcome = "returns"
    THEN ToolResult(<<"text">>, <<"payload">>)
    ELSE ToolResult(<<"text">>, NoField)

\* the handler registered for the tool: the CallToolResult it returns for the
\* outcome of its domain function
ToolHandler(name, args, outcome) ==
    CASE name = "search-flights" ->
             IF outcome = "throws"
             THEN ToolResult(<<"Error: message">>, <<"success: false", "error">>)
             ELSE ToolResult(<<"Found n flights">>,
                             <<"search", "summary", args.origin, args.destination>>)
      [] name = "search-hotels" ->
             IF outcome = "throws"
             THEN ToolResult(<<"Error: message">>, <<"success: false", "error">>)
             ELSE ToolResult(<<"Found n hotels">>, <<"search", "summary">>)
      [] name \in NullCheckingTools ->
             IF outcome = "null"
             THEN ToolResult(<<"not found">>, <<"success: false", "error">>)
             ELSE ToolResult(<<"Selected">>, <<"success: true", "payload">>)
      [] name \in SuccessCheckingTools ->
             IF outcome = "fails"
             THEN ToolResult(<<"result.message">>, <<"success: false", "error">>)
             ELSE ToolResult(<<"result.message">>, <<"success: true", "payload">>)
      [] OTHER -> ToolResult(<<"text">>, <<"payload">>)

\* the middleware is configured with the server's tool list
ToolInit ==
    /\ tools \in {ToolList(u) : u \in Uris \cup {NoUri}}
    /\ connectedApps \in SUBSET AppIds
    /\ visible = NotFiltered
    /\ lastCall = NoCall

\* the state of the tool variables under the MCPApp specifications
ToolParked ==
    /\ tools = ToolList(NoUri)
    /\ connectedApps = {}
    /\ visible = NotFiltered
    /\ lastCall = NoCall

\* the state of the MCPApp variables under the tool specification
AppParked == AppInit

\* useConnectionStore.toggleConnection
toggleConnection(appId) ==
    /\ connectedApps' = IF appId \in connectedApps
                        THEN connectedApps \ {appId}
                        ELSE connectedApps \cup {appId}
    /\ UNCHANGED <<tools, visible, lastCall>>
    /\ UNCHANGED nonToolVars

\* MUTANT of listTools: the first result is kept and returned again.
listToolsCached ==
    /\ visible' = [done |-> TRUE, ctx |-> connectedApps,
                   tools |-> IF visible.done THEN visible.tools
                             ELSE filterTools(tools, connectedApps),
                   before |-> visible.tools]
    /\ UNCHANGED <<tools, connectedApps, lastCall>>
    /\ UNCHANGED nonToolVars

\* the middleware lists the tools for an agent run: filterTools(tools, context)
listTools ==
    /\ visible' = [done |-> TRUE, ctx |-> connectedApps,
                   tools |-> filterTools(tools, connectedApps),
                   before |-> visible.tools]
    /\ UNCHANGED <<tools, connectedApps, lastCall>>
    /\ UNCHANGED nonToolVars

\* the names the tools/call requests carry when resource URIs are explored
CallNames == {"search-flights", "select-flight", "no-such-tool"}

\* the arguments of the example call
ExampleArgs == [origin |-> "JFK", destination |-> "LAX", complete |-> FALSE]

\* the CallToolRequestSchema handler: route by name to the tool's handler and
\* return its result, or "Unknown tool"
callTool(name, args) ==
    /\ IF name \in DOMAIN tools
       THEN \E outcome \in DomainOutcomes(name, args) :
                lastCall' =
                    [made |-> TRUE, name |-> name, kind |-> "result",
                     error |-> Absent, executed |-> TRUE,
                     content |-> ToolHandler(name, args, outcome).content,
                     structuredContent |->
                         ToolHandler(name, args, outcome).structuredContent]
       ELSE lastCall' =
                [made |-> TRUE, name |-> name, kind |-> "error",
                 error |-> "UnknownTool", executed |-> FALSE,
                 content |-> NoField, structuredContent |-> NoField]
    /\ UNCHANGED <<tools, connectedApps, visible>>
    /\ UNCHANGED nonToolVars

ToolNext ==
    \/ \E a \in AppIds : toggleConnection(a)
    \/ listTools
    \/ \E n \in CallNames : callTool(n, ExampleArgs)

ToolStart == ToolInit /\ AppParked /\ ServerParked

ToolSpec == ToolStart /\ [][ToolNext]_vars

\* the MCP server's registry: its sixteen tools; no app is connected
RegistryInit ==
    /\ tools = ServerTools
    /\ connectedApps = {}
    /\ visible = NotFiltered
    /\ lastCall = NoCall

RegistryStart == RegistryInit /\ AppParked /\ ServerParked

RegistryNext ==
    \/ \E a \in AppIds : toggleConnection(a)
    \/ listTools
    \/ \E n \in DOMAIN ServerTools \cup {"no-such-tool"}, args \in Args :
           callTool(n, args)

RegistrySpec == RegistryStart /\ [][RegistryNext]_vars

\* the onNotification calls apps make
Registrations ==
    {<<ToolResultMethod, "h1">>, <<ToolResultMethod, "h2">>, <<"other", "h1">>,
     <<"other", "hThrows">>}

\* the onNotification calls of one app, each made once: a handler for the
\* tool result, as the flights app binds one, and a handler that throws
AppRegistrations == {<<ToolResultMethod, "h1">>, <<"other", "hThrows">>}

Init == AppInit /\ ToolParked /\ ServerParked

Next ==
    \/ \E c \in Channels : init(c)
    \/ \E c \in Channels : sendRequest(c, "tools/call")
    \/ \E c \in Channels, m \in {"app/note"} : sendNotification(c, m)
    \/ \E c \in Channels, r \in AppRegistrations :
           /\ ~MapHas(notificationHandlers[c], r[1])
           /\ onNotification(c, r[1], r[2])
    \/ \E c \in Channels, data \in Inbound : handleMessage(c, data)
    \/ \E c \in Channels, k \in 1..MaxRequests : timeout(c, k)
    \/ \E c \in Channels : unload(c)


Spec == Init /\ [][Next]_vars

\* The event loop runs every armed setTimeout callback of a living window.
TimerSpec ==
    /\ Spec
    /\ \A c \in Channels, k \in 1..MaxRequests : WF_vars(timeout(c, k))

\* the envelopes an app that keeps rebinding its handlers receives: the
\* notifications, and the responses carrying a result
RouterInbound ==
    {data \in Inbound :
        /\ data.jsonrpc = "2.0"
        /\ data.error = Absent
        /\ data.hasId => (data.method = Absent /\ data.result = "r1")}

\* an app that binds and rebinds handlers
RouterNext ==
    \/ \E c \in Channels : init(c)
    \/ \E c \in Channels : sendRequest(c, "tools/call")
    \/ \E c \in Channels, m \in {"app/note"} : sendNotification(c, m)
    \/ \E c \in Channels, r \in Registrations : onNotification(c, r[1], r[2])
    \/ \E c \in Channels, data \in RouterInbound : handleMessage(c, data)
    \/ \E c \in Channels, k \in 1..MaxRequests : timeout(c, k)
    \/ \E c \in Channels : unload(c)

RouterSpec == Init /\ [][RouterNext]_vars

\* two iframes, each with its own MCPApp closure
PairInit == AppStart(Channels) /\ ToolParked /\ ServerParked

\* the envelopes posted to the two iframes: responses carrying a result and
\* notifications
PairInbound ==
    {data \in Inbound :
        data.jsonrpc = "2.0" /\ data.result = "r1" /\ data.error = Absent}

\* the two apps register a handler for the tool-result notification
PairRegistrations == {r \in Registrations : r[1] = ToolResultMethod}

PairNext ==
    \/ \E c \in Channels : init(c)
    \/ \E c \in Channels : sendRequest(c, "tools/call")
    \/ \E c \in Channels, r \in PairRegistrations : onNotification(c, r[1], r[2])
    \/ \E c \in Channels, data \in PairInbound : handleMessage(c, data)
    \/ \E c \in Channels, k \in 1..MaxRequests : timeout(c, k)

PairSpec == PairInit /\ [][PairNext]_vars

\* ------------------------------------------- HTTP sessions (server.ts)

\* SIGINT signals delivered to the process
MaxSigints == 2

\* sessionIdGenerator: () => randomUUID(): every transport draws its own id
SessionIdOf(t) == IF t = "t1" THEN "uuid-1" ELSE "uuid-2"

\* a property name every JavaScript object inherits from Object.prototype
ObjectPrototypeKeys == {"constructor"}

\* the value of an inherited property (a function, not a transport)
Inherited == "Object.prototype.constructor"

\* the mcp-session-id header of a request: none, the id of a session, an id
\* no session has, and the name of an inherited property
HeaderValues ==
    {Absent, "no-such-session"} \cup {SessionIdOf(t) : t \in Transports}
        \cup ObjectPrototypeKeys

\* transports[sessionId] on the plain object: an own property, else a
\* property of Object.prototype, else undefined
Lookup(m, k) ==
    IF k \in DOMAIN m THEN m[k]
    ELSE IF k \in ObjectPrototypeKeys THEN Inherited
    ELSE Absent

Truthy(v) == v # Absent

\* the answer of a request: verb, mcp-session-id header, whether the body is
\* an initialize request, the status ("transport": the transport writes the
\* answer; "none": no answer is written), and what handleRequest was called on
Answer(verb, sid, isInit, status, to) ==
    [made |-> TRUE, verb |-> verb, sid |-> sid, init |-> isInit,
     status |-> status, handed |-> to]

\* mcpPostHandler
post(sid, isInit) ==
    /\ process = "running"
    /\ IF sid # Absent /\ Truthy(Lookup(transports, sid))
       THEN \* existing session; handleRequest of a value that is no
            \* transport throws a TypeError, caught: 500
            /\ response' =
                   IF Lookup(transports, sid) \in Transports
                   THEN Answer("POST", sid, isInit, "transport", Lookup(transports, sid))
                   ELSE Answer("POST", sid, isInit, "500", Lookup(transports, sid))
            /\ UNCHANGED transport
       ELSE IF sid = Absent /\ isInit
       THEN \* new session: new StreamableHTTPServerTransport, server.connect
            /\ \E t \in Transports :
                  /\ transport[t].state = "none"
                  /\ transport' = [transport EXCEPT ![t].state = "open"]
                  /\ response' = Answer("POST", sid, isInit, "transport", t)
       ELSE /\ response' = Answer("POST", sid, isInit, "400", Absent)
            /\ UNCHANGED transport
    /\ UNCHANGED <<transports, process, shutdown>>
    /\ UNCHANGED nonHttpVars

\* the transport handles the initialize request: it draws its session id and
\* calls onsessioninitialized(sid), which stores it under that id. (A key
\* added while a for-in loop runs is not visited by that loop.)
onsessioninitialized(t) ==
    /\ process = "running"
    /\ transport[t].state = "open"
    /\ transport[t].sessionId = Absent
    /\ transport' = [transport EXCEPT ![t].sessionId = SessionIdOf(t)]
    /\ transports' = MapSet(transports, SessionIdOf(t), t)
    /\ UNCHANGED <<process, shutdown, response>>
    /\ UNCHANGED nonHttpVars

\* what transport.onclose does to the transports object
OnClose(m, sid) == IF sid # Absent /\ Truthy(Lookup(m, sid)) THEN MapDelete(m, sid) ELSE m

\* MUTANT of onclose: the callback leaves the session in transports.
oncloseKeepsSession(t) ==
    /\ process = "running"
    /\ transport[t].state = "open"
    /\ transport' = [transport EXCEPT ![t].state = "closed"]
    /\ UNCHANGED <<transports, process, shutdown, response>>
    /\ UNCHANGED nonHttpVars

\* the transport closes (a DELETE it handled, a dropped connection) and
\* calls transport.onclose
onclose(t) ==
    /\ process = "running"
    /\ transport[t].state = "open"
    /\ transport' = [transport EXCEPT ![t].state = "closed"]
    /\ transports' = OnClose(transports, transport[t].sessionId)
    /\ UNCHANGED <<process, shutdown, response>>
    /\ UNCHANGED nonHttpVars

\* app.get("/mcp"): the async handler has no try/catch, so the TypeError of
\* handleRequest on a value that is no transport leaves the request unanswered
get(sid) ==
    /\ process = "running"
    /\ response' =
           IF sid = Absent \/ ~Truthy(Lookup(transports, sid))
           THEN Answer("GET", sid, FALSE, "400", Absent)
           ELSE IF Lookup(transports, sid) \in Transports
           THEN Answer("GET", sid, FALSE, "transport", Lookup(transports, sid))
           ELSE Answer("GET", sid, FALSE, "none", Lookup(transports, sid))
    /\ UNCHANGED <<transports, transport, process, shutdown>>
    /\ UNCHANGED nonHttpVars

\* app.delete("/mcp")
delete(sid) ==
    /\ process = "running"
    /\ response' =
           IF sid = Absent \/ ~Truthy(Lookup(transports, sid))
           THEN Answer("DELETE", sid, FALSE, "400", Absent)
           ELSE IF Lookup(transports, sid) \in Transports
           THEN Answer("DELETE", sid, FALSE, "transport", Lookup(transports, sid))
           ELSE Answer("DELETE", sid, FALSE, "500", Lookup(transports, sid))
    /\ UNCHANGED <<transports, transport, process, shutdown>>
    /\ UNCHANGED nonHttpVars

\* a SIGINT handler whose loop has ended
Finished(registered, tried) ==
    [at |-> registered, todo |-> {}, current |-> Absent, target |-> Absent,
     tried |-> tried]

\* a SIGINT handler waiting for transports[k].close(); todo are the keys its
\* for-in loop has not visited yet
Awaiting(registered, todo, k, t, tried) ==
    [at |-> registered, todo |-> todo \ {k}, current |-> k, target |-> t,
     tried |-> tried \cup {t}]

\* the transports stored in m
Stored(m) == {m[k] : k \in DOMAIN m}

\* the for-in loop goes on: it skips the keys deleted since it started, and
\* calls close() on the transport of the next key; when no key is left the
\* handler calls process.exit(0)
Resume(h, m) ==
    LET live == h.todo \cap DOMAIN m
    IN  IF live = {}
        THEN {Finished(h.at, h.tried)}
        ELSE {Awaiting(h.at, h.todo, k, m[k], h.tried) : k \in live}

\* process.on("SIGINT", ...): the handler runs up to its first await
sigint ==
    /\ process = "running"
    /\ Len(shutdown) < MaxSigints
    /\ \E h \in Resume([at |-> Stored(transports), todo |-> DOMAIN transports,
                        tried |-> {}], transports) :
           /\ shutdown' = Append(shutdown, h)
           /\ process' = IF h.current = Absent THEN "exited" ELSE "running"
    /\ UNCHANGED <<transports, transport, response>>
    /\ UNCHANGED nonHttpVars

CloseOutcomes == {"resolves", "rejects"}

\* the close() a SIGINT handler awaits settles: when it resolves the
\* transport has closed (its onclose has run) and the handler deletes the
\* key; when it rejects the catch logs the error; then the loop goes on
settle(i, outcome) ==
    /\ process = "running"
    /\ i \in 1..Len(shutdown)
    /\ shutdown[i].current # Absent
    /\ LET h == shutdown[i]
           m == IF outcome = "resolves"
                THEN MapDelete(OnClose(transports, h.current), h.current)
                ELSE transports
       IN  /\ transports' = m
           /\ transport' = IF outcome = "resolves"
                           THEN [transport EXCEPT ![h.target].state = "closed"]
                           ELSE transport
           /\ \E n \in Resume(h, m) :
                 /\ shutdown' = [shutdown EXCEPT ![i] = n]
                 /\ process' = IF n.current = Absent THEN "exited" ELSE "running"
    /\ UNCHANGED response
    /\ UNCHANGED nonHttpVars

\* app.get("/health"): sessions
healthSessions == Cardinality(DOMAIN transports)

HttpStart == HttpInit /\ AppParked /\ ToolParked /\ FlightParked /\ HotelInit

HttpNext ==
    \/ \E sid \in HeaderValues, isInit \in BOOLEAN : post(sid, isInit)
    \/ \E sid \in HeaderValues : get(sid)
    \/ \E sid \in HeaderValues : delete(sid)
    \/ \E t \in Transports : onsessioninitialized(t)
    \/ \E t \in Transports : onclose(t)
    \/ sigint
    \/ \E i \in 1..MaxSigints, outcome \in CloseOutcomes : settle(i, outcome)

HttpSpec == HttpStart /\ [][HttpNext]_vars

\* every close() a SIGINT handler awaits settles
ShutdownSpec ==
    /\ HttpSpec
    /\ \A i \in 1..MaxSigints : WF_vars(\E outcome \in CloseOutcomes : settle(i, outcome))

\* ------------------------------------- flight booking (unnamed/part_006)

\* searchParams.passengers, passengers.length and seatIds.length go up to
MaxPassengers == 2

\* generateSearchId() returns a new id at every call
FlightSearchIds == {"flight-search-1"}

\* the searchId argument of a call
FlightSearchArgs == FlightSearchIds \cup {"no-such-search"}

\* the flightId argument of a call
FlightArgs == Flights \cup {"no-such-flight"}

\* the seatIds argument of selectSeats: seats of the seat map and an id that
\* is in no seat map
SeatLists ==
    UNION {[1..n -> Seats \cup {"99Z"}] : n \in 0..MaxPassengers}

\* what a call returned: success, message and, from selectSeats when it
\* succeeds, selectedSeats
FlightReturn(op, searchId, selectedSeats, success, message) ==
    [op |-> op, searchId |-> searchId, selectedSeats |-> selectedSeats,
     success |-> success, message |-> message]

\* searchFlights(params): stores a search with the flights it generated
searchFlights(origin, destination, passengers) ==
    /\ IF IsAirport(origin) /\ IsAirport(destination)
       THEN \E id \in FlightSearchIds \ flightLog.issued :
               /\ flightSearches' =
                      MapSet(flightSearches, id,
                             [passengers |-> passengers,
                              selectedFlightId |-> Absent,
                              selectedSeats |-> NoSeats])
               /\ flightLog' = [flightLog EXCEPT !.issued = @ \cup {id}]
               /\ flightResult' = FlightReturn("searchFlights", id, NoSeats, TRUE, Absent)
       ELSE /\ flightResult' =
                   FlightReturn("searchFlights", Absent, NoSeats, FALSE, "Invalid airport code")
            /\ UNCHANGED <<flightSearches, flightLog>>
    /\ UNCHANGED <<bookings, seatMaps>>
    /\ UNCHANGED nonFlightVars

\* selectFlight(searchId, flightId): undefined when the search or the flight
\* is not found
selectFlight(searchId, flightId) ==
    /\ IF MapHas(flightSearches, searchId) /\ flightId \in Flights
       THEN /\ flightSearches' =
                   [flightSearches EXCEPT ![searchId].selectedFlightId = flightId]
            /\ flightResult' = FlightReturn("selectFlight", searchId, NoSeats, TRUE, Absent)
       ELSE /\ flightResult' = FlightReturn("selectFlight", searchId, NoSeats, FALSE, Absent)
            /\ UNCHANGED flightSearches
    /\ UNCHANGED <<bookings, seatMaps, flightLog>>
    /\ UNCHANGED nonFlightVars

\* generateSeatMap(flightId): seat.status === "occupied"
Occupied(flightId, seatId) == seatId \in seatMaps[flightId]

\* the seats of seatIds that fail the loop's checks, by position
BadSeats(flightId, seatIds) ==
    {i \in 1..Len(seatIds) :
        seatIds[i] \notin Seats \/ Occupied(flightId, seatIds[i])}

\* the message of the first seat that fails
SeatFailure(flightId, seatIds) ==
    LET i == CHOOSE j \in BadSeats(flightId, seatIds) :
                 \A k \in BadSeats(flightId, seatIds) : j <= k
    IN  IF seatIds[i] \notin Seats THEN "Seat not found" ELSE "Seat is already taken"

\* why selectSeats fails, or Absent
SelectSeatsFailure(searchId, flightId, seatIds) ==
    IF ~MapHas(flightSearches, searchId) THEN "Search session not found"
    ELSE IF flightSearches[searchId].selectedFlightId # flightId
    THEN "Flight not selected"
    ELSE IF BadSeats(flightId, seatIds) # {} THEN SeatFailure(flightId, seatIds)
    ELSE Absent

\* MUTANT of selectSeats: the list is stored before the seats are verified.
selectSeatsStoresFirst(searchId, flightId, seatIds) ==
    LET failure == SelectSeatsFailure(searchId, flightId, seatIds)
    IN  /\ flightSearches' =
               IF MapHas(flightSearches, searchId)
                  /\ flightSearches[searchId].selectedFlightId = flightId
               THEN [flightSearches EXCEPT ![searchId].selectedSeats = seatIds]
               ELSE flightSearches
        /\ flightLog' =
               IF failure = Absent
               THEN [flightLog EXCEPT !.seated = @ \cup {<<searchId, flightId>>}]
               ELSE flightLog
        /\ flightResult' =
               FlightReturn("selectSeats", searchId,
                            IF failure = Absent THEN seatIds ELSE NoSeats,
                            failure = Absent,
                            IF failure = Absent THEN "Selected" ELSE failure)
        /\ UNCHANGED <<bookings, seatMaps>>
        /\ UNCHANGED nonFlightVars

\* selectSeats(searchId, flightId, seatIds)
selectSeats(searchId, flightId, seatIds) ==
    LET failure == SelectSeatsFailure(searchId, flightId, seatIds)
    IN  /\ IF failure = Absent
           THEN /\ flightSearches' =
                       [flightSearches EXCEPT ![searchId].selectedSeats = seatIds]
                /\ flightLog' =
                       [flightLog EXCEPT !.seated = @ \cup {<<searchId, flightId>>}]
                /\ flightResult' = FlightReturn("selectSeats", searchId, seatIds, TRUE, "Selected")
           ELSE /\ flightResult' = FlightReturn("selectSeats", searchId, NoSeats, FALSE, failure)
                /\ UNCHANGED <<flightSearches, flightLog>>
        /\ UNCHANGED <<bookings, seatMaps>>
        /\ UNCHANGED nonFlightVars

\* MUTANT of CreateBookingFailure: the check of the selected seats is left out.
CreateBookingFailureNoSeatCheck(searchId, count) ==
    IF ~MapHas(flightSearches, searchId) THEN "Search session not found"
    ELSE LET search == flightSearches[searchId]
         IN  IF search.selectedFlightId = Absent THEN "No flight selected"
             ELSE IF count # search.passengers THEN "Expected other passengers"
             ELSE Absent

\* why createBooking fails, or Absent
CreateBookingFailure(searchId, count) ==
    IF ~MapHas(flightSearches, searchId) THEN "Search session not found"
    ELSE LET search == flightSearches[searchId]
         IN  IF search.selectedFlightId = Absent THEN "No flight selected"
             ELSE IF search.selectedSeats = NoSeats \/ Len(search.selectedSeats) = 0
             THEN "No seats selected"
             ELSE IF count # search.passengers THEN "Expected other passengers"
             ELSE IF count # Len(search.selectedSeats)
             THEN "Passengers do not match selected seats"
             ELSE IF search.selectedFlightId \notin Flights
             THEN "Selected flight not found"
             ELSE Absent

\* MUTANT of createBooking: the search session is kept after the booking.
createBookingKeepsSearch(searchId, count) ==
    LET failure == CreateBookingFailure(searchId, count)
    IN  /\ IF failure = Absent
           THEN /\ bookings' =
                       Append(bookings,
                              [searchId |-> searchId,
                               flight |-> flightSearches[searchId].selectedFlightId,
                               seats |-> flightSearches[searchId].selectedSeats,
                               passengers |-> count])
                /\ flightResult' =
                       FlightReturn("createBooking", searchId, NoSeats, TRUE, "Booking confirmed")
           ELSE /\ flightResult' = FlightReturn("createBooking", searchId, NoSeats, FALSE, failure)
                /\ UNCHANGED bookings
        /\ UNCHANGED <<flightSearches, seatMaps, flightLog>>
        /\ UNCHANGED nonFlightVars

\* createBooking(searchId, passengers), count = passengers.length
createBooking(searchId, count) ==
    LET failure == CreateBookingFailure(searchId, count)
    IN  /\ IF failure = Absent
           THEN /\ bookings' =
                       Append(bookings,
                              [searchId |-> searchId,
                               flight |-> flightSearches[searchId].selectedFlightId,
                               seats |-> flightSearches[searchId].selectedSeats,
                               passengers |-> count])
                /\ flightSearches' = MapDelete(flightSearches, searchId)
                /\ flightResult' =
                       FlightReturn("createBooking", searchId, NoSeats, TRUE, "Booking confirmed")
           ELSE /\ flightResult' = FlightReturn("createBooking", searchId, NoSeats, FALSE, failure)
                /\ UNCHANGED <<flightSearches, bookings>>
        /\ UNCHANGED <<seatMaps, flightLog>>
        /\ UNCHANGED nonFlightVars

FlightStart == FlightInit /\ AppParked /\ ToolParked /\ HttpInit /\ HotelInit

FlightNext ==
    \/ \E o \in {"JFK", "XXX"}, p \in 1..MaxPassengers : searchFlights(o, "LAX", p)
    \/ \E s \in FlightSearchArgs, f \in FlightArgs : selectFlight(s, f)
    \/ \E s \in FlightSearchArgs, f \in FlightArgs, seatIds \in SeatLists :
           selectSeats(s, f, seatIds)
    \/ \E s \in FlightSearchArgs, n \in 0..MaxPassengers : createBooking(s, n)

FlightSpec == FlightStart /\ [][FlightNext]_vars

\* -------------------------------------- hotel booking (unnamed/part_006)

\* check-in and check-out dates are days 1..MaxDay
MaxDay == 3

\* searchParams.guests goes up to
MaxGuests == 2

\* the quantity argument of selectRoom goes up to
MaxQuantity == 2

\* CITIES
Cities == {"Paris"}

\* generateSearchId() returns a new id at every call
HotelSearchIds == {"hotel-search-1"}

HotelSearchArgs == HotelSearchIds \cup {"no-such-search"}

\* the hotels of a search and their rooms: generateHotelId and generateRoomId
\* return a new id at every call, so no room id belongs to two hotels
Hotels == {"H1", "H2"}

Rooms ==
    [R1 |-> [hotel |-> "H1", available |-> 1, maxGuests |-> 2, pricePerNight |-> 3],
     R2 |-> [hotel |-> "H1", available |-> 2, maxGuests |-> 1, pricePerNight |-> 2],
     R3 |-> [hotel |-> "H2", available |-> 2, maxGuests |-> 2, pricePerNight |-> 5]]

\* hotel.rooms.find((r) => r.id === roomId)
FindRoom(hotelId, roomId) ==
    IF roomId \in DOMAIN Rooms /\ Rooms[roomId].hotel = hotelId
    THEN roomId ELSE Absent

HotelArgs == Hotels \cup {"no-such-hotel"}

RoomArgs == DOMAIN Rooms \cup {"no-such-room"}

\* Math.abs
Abs(n) == IF n < 0 THEN 0 - n ELSE n

\* calculateNights(checkIn, checkOut): the days between the two dates
calculateNights(checkIn, checkOut) == Abs(checkOut - checkIn)

HotelReturn(op, searchId, success, message) ==
    [op |-> op, searchId |-> searchId, success |-> success, message |-> message]

CheckOutMessage == "Check-out date must be after check-in date"

\* why searchHotels throws, or Absent
SearchHotelsError(city, checkIn, checkOut) ==
    IF city \notin Cities THEN "City not found"
    ELSE IF calculateNights(checkIn, checkOut) < 1 THEN CheckOutMessage
    ELSE Absent

\* searchHotels(params), called by the search-hotels handler, which returns
\* the message of what it throws; selectedQuantity 0 stands for undefined
searchHotels(city, checkIn, checkOut, guests) ==
    LET error == SearchHotelsError(city, checkIn, checkOut)
    IN  /\ IF error = Absent
           THEN \E id \in HotelSearchIds \ hotelLog.issued :
                   /\ hotelSearches' =
                          MapSet(hotelSearches, id,
                                 [checkIn |-> checkIn, checkOut |-> checkOut,
                                  guests |-> guests,
                                  nights |-> calculateNights(checkIn, checkOut),
                                  selectedHotelId |-> Absent,
                                  selectedRoomId |-> Absent,
                                  selectedQuantity |-> 0])
                   /\ hotelLog' = [hotelLog EXCEPT !.issued = @ \cup {id}]
                   /\ hotelResult' = HotelReturn("searchHotels", id, TRUE, Absent)
           ELSE /\ hotelResult' = HotelReturn("searchHotels", Absent, FALSE, error)
                /\ UNCHANGED <<hotelSearches, hotelLog>>
        /\ UNCHANGED hotelBookings
        /\ UNCHANGED nonHotelVars

\* selectHotel(searchId, hotelId): undefined when the search or the hotel is
\* not found
selectHotel(searchId, hotelId) ==
    /\ IF MapHas(hotelSearches, searchId) /\ hotelId \in Hotels
       THEN /\ hotelSearches' =
                   [hotelSearches EXCEPT ![searchId].selectedHotelId = hotelId]
            /\ hotelLog' =
                   IF hotelSearches[searchId].selectedRoomId # Absent
                   THEN [hotelLog EXCEPT !.hotelAfterRoom = @ \cup {searchId}]
                   ELSE hotelLog
            /\ hotelResult' = HotelReturn("selectHotel", searchId, TRUE, Absent)
       ELSE /\ hotelResult' = HotelReturn("selectHotel", searchId, FALSE, Absent)
            /\ UNCHANGED <<hotelSearches, hotelLog>>
    /\ UNCHANGED hotelBookings
    /\ UNCHANGED nonHotelVars

\* MUTANT of SelectRoomFailure: the check of the room's availability is left
\* out.
SelectRoomFailureNoAvailability(searchId, hotelId, roomId, quantity) ==
    IF ~MapHas(hotelSearches, searchId) THEN "Search session not found"
    ELSE IF hotelId \notin Hotels THEN "Hotel not found"
    ELSE IF FindRoom(hotelId, roomId) = Absent THEN "Room type not found"
    ELSE IF quantity * Rooms[roomId].maxGuests < hotelSearches[searchId].guests
    THEN "Cannot accommodate the guests"
    ELSE Absent

\* why selectRoom fails, or Absent
SelectRoomFailure(searchId, hotelId, roomId, quantity) ==
    IF ~MapHas(hotelSearches, searchId) THEN "Search session not found"
    ELSE IF hotelId \notin Hotels THEN "Hotel not found"
    ELSE IF FindRoom(hotelId, roomId) = Absent THEN "Room type not found"
    ELSE IF quantity > Rooms[roomId].available THEN "Only fewer rooms available"
    ELSE IF quantity * Rooms[roomId].maxGuests < hotelSearches[searchId].guests
    THEN "Cannot accommodate the guests"
    ELSE Absent

\* selectRoom(searchId, hotelId, roomId, quantity)
selectRoom(searchId, hotelId, roomId, quantity) ==
    LET failure == SelectRoomFailure(searchId, hotelId, roomId, quantity)
    IN  /\ IF failure = Absent
           THEN /\ hotelSearches' =
                       [hotelSearches EXCEPT ![searchId].selectedHotelId = hotelId,
                                             ![searchId].selectedRoomId = roomId,
                                             ![searchId].selectedQuantity = quantity]
                /\ hotelResult' = HotelReturn("selectRoom", searchId, TRUE, "Selected")
           ELSE /\ hotelResult' = HotelReturn("selectRoom", searchId, FALSE, failure)
                /\ UNCHANGED hotelSearches
        /\ UNCHANGED <<hotelBookings, hotelLog>>
        /\ UNCHANGED nonHotelVars

\* why createHotelBooking fails, or Absent
CreateHotelBookingFailure(searchId, count) ==
    IF ~MapHas(hotelSearches, searchId) THEN "Search session not found"
    ELSE LET search == hotelSearches[searchId]
         IN  IF \/ search.selectedHotelId = Absent
                \/ search.selectedRoomId = Absent
                \/ search.selectedQuantity = 0
             THEN "No room selected"
             ELSE IF search.selectedHotelId \notin Hotels THEN "Hotel not found"
             ELSE IF FindRoom(search.selectedHotelId, search.selectedRoomId) = Absent
             THEN "Room not found"
             ELSE IF count = 0 THEN "At least one guest is required"
             ELSE Absent

\* the booking createHotelBooking stores (searched: searchParams.guests)
HotelBooking(searchId, search) ==
    [searchId |-> searchId,
     hotel |-> search.selectedHotelId,
     room |-> search.selectedRoomId,
     roomQuantity |-> search.selectedQuantity,
     nights |-> search.nights,
     totalPrice |-> Rooms[search.selectedRoomId].pricePerNight * search.nights
                       * search.selectedQuantity,
     searched |-> search.guests]

\* createHotelBooking(searchId, guests), count = guests.length
createHotelBooking(searchId, count) ==
    LET failure == CreateHotelBookingFailure(searchId, count)
    IN  /\ IF failure = Absent
           THEN /\ hotelBookings' =
                       Append(hotelBookings,
                              HotelBooking(searchId, hotelSearches[searchId]))
                /\ hotelSearches' = MapDelete(hotelSearches, searchId)
                /\ hotelResult' =
                       HotelReturn("createHotelBooking", searchId, TRUE, "Booking confirmed")
           ELSE /\ hotelResult' =
                       HotelReturn("createHotelBooking", searchId, FALSE, failure)
                /\ UNCHANGED <<hotelSearches, hotelBookings>>
        /\ UNCHANGED hotelLog
        /\ UNCHANGED nonHotelVars

HotelStart == HotelInit /\ AppParked /\ ToolParked /\ HttpInit /\ FlightParked

HotelNext ==
    \/ \E city \in Cities \cup {"Atlantis"}, checkIn \in 1..MaxDay,
          checkOut \in 1..MaxDay, guests \in 1..MaxGuests :
           searchHotels(city, checkIn, checkOut, guests)
    \/ \E s \in HotelSearchArgs, h \in HotelArgs : selectHotel(s, h)
    \/ \E s \in HotelSearchArgs, h \in HotelArgs, r \in RoomArgs,
          q \in 0..MaxQuantity : selectRoom(s, h, r, q)
    \/ \E s \in HotelSearchArgs, n \in 0..MaxGuests : createHotelBooking(s, n)

HotelSpec == HotelStart /\ [][HotelNext]_vars

\* ----------------------- one flight search and one hotel search together

SessionStart == FlightParked /\ HotelInit /\ HttpInit /\ AppParked /\ ToolParked

\* one passenger books seat 1A of flight F1 and one guest books room R1 of
\* hotel H1 for a night, every call also made with an unknown search id
SessionNext ==
    \/ searchFlights("JFK", "LAX", 1)
    \/ \E s \in FlightSearchArgs : selectFlight(s, "F1")
    \/ \E s \in FlightSearchArgs : selectSeats(s, "F1", <<"1A">>)
    \/ \E s \in FlightSearchArgs : createBooking(s, 1)
    \/ searchHotels("Paris", 1, 2, 1)
    \/ \E s \in HotelSearchArgs : selectHotel(s, "H1")
    \/ \E s \in HotelSearchArgs : selectRoom(s, "H1", "R1", 1)
    \/ \E s \in HotelSearchArgs : createHotelBooking(s, 1)

SessionSpec == SessionStart /\ [][SessionNext]_vars

\* ---------------------------------------------------------------- claims

CallIx(c) == 1..Len(calls[c])

\* the calls of channel c that were issued with id i
IssuedWith(c, i) == {k \in CallIx(c) : calls[c][k].id = i}

\* a response envelope: the protocol tag, an id, no method, and exactly one of
\* result and error
IsResponseEnvelope(data) ==
    /\ data.jsonrpc = "2.0"
    /\ data.hasId
    /\ data.method = Absent
    /\ (data.result = Absent) # (data.error = Absent)

ResponseEnvelopes == {data \in Inbound : IsResponseEnvelope(data)}

\* C1: on one channel, whatever the order of arrival, a response envelope
\* carrying id i settles the continuation of the request issued with id i, if
\* it is pending, with the envelope's result (resolve) or error (reject), and
\* changes no other request of any channel.
C1_ResponseSettlesItsOwnRequest ==
    [][\A c \in Channels, data \in ResponseEnvelopes :
          handleMessage(c, data) =>
              /\ \A d \in Channels : \A k \in CallIx(d) :
                     (d # c \/ calls[d][k].id # data.id) => calls'[d][k] = calls[d][k]
              /\ \A k \in IssuedWith(c, data.id) :
                     calls[c][k].st = "pending" =>
                         /\ calls'[c][k].n = 1
                         /\ IF data.error # Absent
                            THEN /\ calls'[c][k].st = "rejected"
                                 /\ calls'[c][k].val = data.error
                            ELSE /\ calls'[c][k].st = "resolved"
                                 /\ calls'[c][k].val = data.result
              /\ ~MapHas(pendingRequests'[c], data.id)]_vars

\* C1 witness: two requests issued, the second answered first with its own
\* result while the first still waits.
C1_Witness ==
    \E c \in Channels :
        /\ Len(calls[c]) = 2
        /\ calls[c][1].st = "pending"
        /\ calls[c][2].st = "resolved"
        /\ calls[c][2].val = "r2"

\* call k of channel c was rejected by its timer
TimedOut(c, k) == calls[c][k].st = "rejected" /\ calls[c][k].val = TimeoutError

C3_TeardownRejectsPending ==
    [][\A c \in Channels :
          /\ unload(c) =>
                 \A k \in CallIx(c) :
                     calls[c][k].st = "pending" =>
                         /\ calls'[c][k].st = "rejected"
                         /\ calls'[c][k].val = ChannelClosed
                         /\ calls'[c][k].n = 1
          /\ ~alive[c] => calls'[c] = calls[c]]_vars

\* the resource URI has the shape ui://<namespace>/...
WellFormedUri(u) ==
    /\ Len(u) >= 5
    /\ u[1] = "ui:" /\ u[2] = Slash /\ u[3] = Slash
    /\ u[4] # Slash
    /\ \E j \in 5..Len(u) : u[j] = Slash

\* the namespace segment of a well-formed resource URI
NamespaceOf(u) == SubSeq(u, 4, RunEnd(u, 4))

\* C4 (as claimed): filterTools returns exactly the tools without uiResourceId
\* and those whose uiResourceId is ui://<namespace>/... with the namespace in
\* connectedNamespaces.
C4_VisibleExactlyConnectedNamespaces ==
    visible.done =>
        visible.tools =
            {n \in DOMAIN tools :
                \/ tools[n] = NoUri
                \/ /\ WellFormedUri(tools[n])
                   /\ \E a \in visible.ctx : NamespaceOf(tools[n]) = <<a>>}

\* C5 (as claimed): invoking a registered tool that is not visible under the
\* context answers ToolNotAuthorized; invoking an unregistered name answers
\* UnknownTool.
C5_UnauthorizedIsNotUnknown ==
    [][\A n \in CallNames :
          callTool(n, ExampleArgs) =>
              /\ (n \in DOMAIN tools /\ n \notin filterTools(tools, connectedApps))
                     => (lastCall'.kind = "error"
                         /\ lastCall'.error = "ToolNotAuthorized")
              /\ n \notin DOMAIN tools
                     => (lastCall'.kind = "error"
                         /\ lastCall'.error = "UnknownTool")]_vars

\* C6 (as claimed): a tool whose uiResourceId does not have the shape
\* ui://<namespace>/... is never returned by filterTools, whatever the context.
C6_MalformedNeverVisible ==
    visible.done =>
        \A n \in visible.tools : tools[n] # NoUri => WellFormedUri(tools[n])

\* C7: within one channel the ids sendRequest allocated are strictly increasing
\* in call order (hence pairwise distinct), under every interleaving of calls,
\* responses and timeouts; a freed id is never allocated again.
C7_IdsStrictlyIncreasing ==
    \A c \in Channels : \A j, k \in CallIx(c) :
        j < k => calls[c][j].id < calls[c][k].id

\* C7 witness: a second id was allocated after the first request's id had been
\* freed by a response.
C7_Witness ==
    \E c \in Channels :
        /\ Len(calls[c]) = 2
        /\ calls[c][1].st = "resolved"
        /\ ~MapHas(pendingRequests[c], calls[c][1].id)
        /\ calls[c][2].st = "pending"

\* the lifecycle state of a channel that is alive or not and has or has not
\* attached its message listener; the module keeps no other lifecycle state
ChannelState(isAlive, isListening) ==
    IF ~isAlive THEN "Closed"
    ELSE IF isListening THEN "Ready" ELSE "Attaching"

\* the order of the lifecycle states
LifecycleOrder ==
    {<<"Attaching", "Ready">>, <<"Ready", "Closing">>, <<"Closing", "Closed">>}

\* C8 (as claimed): a channel changes state only from Attaching to Ready, from
\* Ready to Closing and from Closing to Closed; it becomes Ready only with the
\* client's ui/ready notification; a Closed channel stays Closed.
C8_LifecycleInOrder ==
    [][\A c \in Channels :
          LET from == ChannelState(alive[c], listening[c])
              to   == ChannelState(alive'[c], listening'[c])
          IN  /\ from # to => <<from, to>> \in LifecycleOrder
              /\ (from = "Attaching" /\ to = "Ready")
                     => Outbound(FALSE, 1, ReadyMethod) \in outbox'[c]
              /\ from = "Closed" => to = "Closed"]_vars

\* C14: the pending-request table and the handler bindings belong to one
\* channel: an envelope received on a channel settles only that channel's
\* request and invokes only that channel's handler, and leaves every other
\* channel's table, promises and bindings as they were, also when another
\* channel has a request pending under the same id.
C14_ChannelsArePrivate ==
    [][\A c \in Channels : \A data \in PairInbound :
          handleMessage(c, data) =>
              /\ \A d \in Channels \ {c} :
                     /\ pendingRequests'[d] = pendingRequests[d]
                     /\ calls'[d] = calls[d]
                     /\ notificationHandlers'[d] = notificationHandlers[d]
                     /\ requestId'[d] = requestId[d]
              /\ dispatched' # NoDispatch =>
                     /\ dispatched'.chan = c
                     /\ MapHas(notificationHandlers[c], data.method)
                     /\ dispatched'.handler = notificationHandlers[c][data.method]
              /\ (IsResponseFor(c, data)) =>
                     calls'[c][pendingRequests[c][data.id]].st = "resolved"]_vars

\* C14 witness: both channels issued a request with id 1; A's was resolved by
\* an envelope received on A while B's, with the same id, is still pending;
\* both bound a handler to the same method and the last envelope, a
\* notification on A, invoked A's.
C14_Witness ==
    /\ Len(calls["A"]) = 1 /\ Len(calls["B"]) = 1
    /\ calls["A"][1].id = calls["B"][1].id
    /\ calls["A"][1].st = "resolved"
    /\ calls["B"][1].st = "pending"
    /\ MapHas(pendingRequests["B"], calls["B"][1].id)
    /\ MapHas(notificationHandlers["A"], ToolResultMethod)
    /\ MapHas(notificationHandlers["B"], ToolResultMethod)
    /\ notificationHandlers["A"][ToolResultMethod] # notificationHandlers["B"][ToolResultMethod]
    /\ dispatched.chan = "A"
    /\ dispatched.handler = notificationHandlers["A"][ToolResultMethod]

\* an envelope that does not decode: the protocol tag is missing or is not
\* "2.0", or result and error are both present, or neither id nor method is
Malformed(data) ==
    \/ data.jsonrpc # "2.0"
    \/ data.result # Absent /\ data.error # Absent
    \/ ~data.hasId /\ data.method = Absent

MalformedEnvelopes == {data \in Inbound : Malformed(data)}

\* C15 (as claimed): receiving a malformed envelope drops that envelope only:
\* the channel stays open and listening, and its pending-request table, its
\* promises and its notification handlers are as before.
C15_MalformedIsDroppedAlone ==
    [][\A c \in Channels : \A data \in MalformedEnvelopes :
          handleMessage(c, data) =>
              /\ alive'[c] /\ listening'[c]
              /\ pendingRequests'[c] = pendingRequests[c]
              /\ notificationHandlers'[c] = notificationHandlers[c]
              /\ \A k \in CallIx(c) : calls'[c][k].st = calls[c][k].st]_vars

\* C16 (as claimed): an envelope that does not decode settles no pending
\* request and invokes no handler.
C16_MalformedSettlesNothing ==
    [][\A c \in Channels : \A data \in MalformedEnvelopes :
          handleMessage(c, data) =>
              /\ calls' = calls
              /\ pendingRequests' = pendingRequests
              /\ dispatched' = NoDispatch]_vars

\* an envelope with the protocol tag that carries both an id and a method
IsRequestEnvelope(data) ==
    data.jsonrpc = "2.0" /\ data.hasId /\ data.method # Absent

RequestEnvelopes == {data \in Inbound : IsRequestEnvelope(data)}

\* C17 (as claimed): an envelope is a response (id, no method), a notification
\* (method, no id) or a request (both) and is dispatched as that: a response
\* settles the pending request of its id, a notification only invokes the
\* handler bound to its method, and a request is never consumed as the
\* response to the pending request that has its id.
C17_OneShapePerEnvelope ==
    [][\A c \in Channels :
          /\ \A data \in RequestEnvelopes :
                 handleMessage(c, data) =>
                     /\ pendingRequests' = pendingRequests
                     /\ calls' = calls
          /\ \A data \in {x \in ResponseEnvelopes : ~Malformed(x)} :
                 handleMessage(c, data) =>
                     /\ dispatched' = NoDispatch
                     /\ \A k \in CallIx(c) :
                            (calls[c][k].st = "pending" /\ calls[c][k].id = data.id)
                                => calls'[c][k].st # "pending"
          /\ \A data \in {x \in Inbound : x.jsonrpc = "2.0" /\ IsNotification(x)} :
                 handleMessage(c, data) =>
                     /\ pendingRequests' = pendingRequests
                     /\ calls' = calls
                     /\ MapHas(notificationHandlers[c], data.method)
                            => dispatched'.handler = notificationHandlers[c][data.method]]_vars

NotificationEnvelopes == {data \in Inbound : data.jsonrpc = "2.0" /\ IsNotification(data)}

\* C18 (as claimed): an exception thrown by a notification handler is caught
\* where the handler is called: it does not leave handleMessage, the channel
\* stays open and listening, and the pending-request table, the promises and
\* the handler bindings are as before, so later envelopes are processed.
C18_HandlerExceptionIsSwallowed ==
    [][\A c \in Channels : \A data \in NotificationEnvelopes :
          (/\ handleMessage(c, data)
           /\ MapHas(notificationHandlers[c], data.method)
           /\ Throws(notificationHandlers[c][data.method]))
          => /\ ~dispatched'.uncaught
             /\ alive'[c] /\ listening'[c]
             /\ pendingRequests' = pendingRequests
             /\ calls' = calls
             /\ notificationHandlers' = notificationHandlers]_vars

\* C19: a channel binds at most one handler to a method: onNotification binds
\* the new handler in place of any earlier one and leaves the bindings of all
\* other methods as they were, no other operation changes a binding, and a
\* notification invokes the handler bound to its method, that one only and
\* once.
C19_OneHandlerPerMethod ==
    [][\A c \in Channels :
          /\ \A r \in Registrations :
                 onNotification(c, r[1], r[2]) =>
                     /\ DOMAIN notificationHandlers'[c] =
                            DOMAIN notificationHandlers[c] \cup {r[1]}
                     /\ notificationHandlers'[c][r[1]] = r[2]
                     /\ \A m \in DOMAIN notificationHandlers[c] \ {r[1]} :
                            notificationHandlers'[c][m] = notificationHandlers[c][m]
          /\ notificationHandlers'[c] # notificationHandlers[c] =>
                 \E r \in Registrations : onNotification(c, r[1], r[2])
          /\ \A data \in {x \in RouterInbound : IsNotification(x)} :
                 (handleMessage(c, data) /\ MapHas(notificationHandlers[c], data.method))
                 => dispatched' =
                        [chan |-> c, method |-> data.method,
                         handler |-> notificationHandlers[c][data.method],
                         uncaught |-> Throws(notificationHandlers[c][data.method])]]_vars

\* C19 witness: the handler of the tool-result notification was replaced, by
\* h2, another method has a handler too, and the last step, a tool-result
\* notification, invoked h2.
C19_Witness ==
    \E c \in Channels :
        /\ ToolResultMethod \in rebound[c]
        /\ MapHas(notificationHandlers[c], "other")
        /\ notificationHandlers[c][ToolResultMethod] = "h2"
        /\ dispatched.chan = c
        /\ dispatched.method = ToolResultMethod
        /\ dispatched.handler = "h2"

\* the server's tool whose resource URI names the app
ToolsOfApp(a) ==
    {n \in DOMAIN ServerTools :
        WellFormedUri(ServerTools[n]) /\ NamespaceOf(ServerTools[n]) = <<a>>}

\* C11 (as claimed): the handler of a tool is executed only if the name is
\* registered, the tool is visible under the context and the arguments
\* satisfy the input schema; arguments that violate the schema are answered
\* with InvalidArguments and the handler is not executed.
C11_ChecksBeforeExecution ==
    [][\A n \in DOMAIN ServerTools \cup {"no-such-tool"} : \A args \in Args :
          callTool(n, args) =>
              /\ lastCall'.executed =>
                     /\ n \in DOMAIN tools
                     /\ n \in filterTools(tools, connectedApps)
                     /\ ArgsValid(args)
              /\ (/\ n \in DOMAIN tools
                  /\ n \in filterTools(tools, connectedApps)
                  /\ ~ArgsValid(args))
                 => /\ ~lastCall'.executed
                    /\ lastCall'.kind = "error"
                    /\ lastCall'.error = "InvalidArguments"]_vars

\* C12: every filterTools call returns the set its own context determines:
\* the tools without a resource URI and the tools of the apps connected at
\* that call; a tool of an app that was disconnected before the call is not
\* returned, whatever an earlier call returned.
C12_VisibleFollowsContext ==
    visible.done =>
        /\ visible.tools = filterTools(tools, visible.ctx)
        /\ \A a \in AppIds :
               a \notin visible.ctx => visible.tools \cap ToolsOfApp(a) = {}
        /\ \A a \in visible.ctx : ToolsOfApp(a) \subseteq visible.tools

\* C12 witness: an earlier call returned search-flights; flights was then
\* disconnected and hotels connected, and the call after that returned
\* search-hotels and not search-flights.
C12_Witness ==
    /\ visible.done
    /\ "search-flights" \in visible.before
    /\ visible.ctx = {"hotels"}
    /\ "search-flights" \notin visible.tools
    /\ "search-hotels" \in visible.tools

SessionIds == {SessionIdOf(t) : t \in Transports}

\* the request just answered was one the claim lets through to a transport
C22_Admitted(r, m) ==
    \/ r.sid \in DOMAIN m
    \/ r.verb = "POST" /\ r.sid = Absent /\ r.init

\* C22 (as claimed): a request to /mcp is handed on (handleRequest is called)
\* only if its session id is a key of transports, or it is a POST without
\* session id whose body is an initialize request; every other request is
\* answered 400 and leaves transports unchanged.
C22_OnlySessionsOrInitialize ==
    [][response' # response =>
           /\ response'.handed # Absent => C22_Admitted(response', transports)
           /\ ~C22_Admitted(response', transports) =>
                  /\ response'.status = "400"
                  /\ transports' = transports]_vars

\* the sessions that are initialized and not closed
LiveSessions ==
    {t \in Transports : transport[t].state = "open" /\ transport[t].sessionId # Absent}

\* C23: the keys of transports are exactly the session ids of the transports
\* that have reported their session and have not closed, each key maps to
\* the transport with that sessionId (so /health counts the live sessions),
\* and a request carrying the id of a closed session is answered 400.
C23_KeysAreLiveSessions ==
    /\ [](/\ DOMAIN transports = {transport[t].sessionId : t \in LiveSessions}
          /\ \A sid \in DOMAIN transports :
                 /\ transports[sid] \in LiveSessions
                 /\ transport[transports[sid]].sessionId = sid
          /\ healthSessions = Cardinality(LiveSessions))
    /\ [][(/\ response' # response
            /\ \E t \in Transports :
                   /\ transport[t].state = "closed"
                   /\ transport[t].sessionId # Absent
                   /\ transport[t].sessionId = response'.sid)
           => /\ response'.status = "400"
              /\ response'.handed = Absent]_vars

\* C23 witness: a session was closed while another one is live, and a
\* request carrying the closed session's id was answered 400.
C23_Witness ==
    \E t \in Transports :
        /\ transport[t].state = "closed"
        /\ transport[t].sessionId # Absent
        /\ LiveSessions # {}
        /\ response.made
        /\ response.sid = transport[t].sessionId
        /\ response.status = "400"

\* the transports some SIGINT handler has called close() on
Tried == UNION {shutdown[i].tried : i \in 1..Len(shutdown)}

\* C30 (as claimed): when the process has exited, every transport that was
\* registered at the moment of a SIGINT has had close() called on it (or had
\* closed by itself before its turn), also when a close() before it failed;
\* and every SIGINT leads to the exit of the process.
C30_ShutdownClosesEveryTransport ==
    /\ [](process = "exited" =>
              \A i \in 1..Len(shutdown) : \A t \in shutdown[i].at :
                  t \in Tried \/ transport[t].state = "closed")
    /\ (Len(shutdown) > 0) ~> (process = "exited")

\* C24 (as claimed): every seat of a stored flight booking is a seat of the
\* seat map of the booked flight and is not occupied in it.
C24_BookedSeatsAreFree ==
    \A i \in 1..Len(bookings) : \A j \in 1..Len(bookings[i].seats) :
        /\ bookings[i].seats[j] \in Seats
        /\ ~Occupied(bookings[i].flight, bookings[i].seats[j])

\* C25: createBooking succeeds only on a stored search on which selectFlight
\* and then selectSeats for that flight id have succeeded, and only with as
\* many passengers as the search asked for and as seats are selected; then it
\* stores one booking. In every other case it returns success = false,
\* stores no booking and keeps the search sessions as they are.
C25_BookingNeedsFlightSeatsAndCounts ==
    [][(flightResult'.op = "createBooking"
          /\ <<flightResult, bookings, flightSearches>>'
                 # <<flightResult, bookings, flightSearches>>) =>
          LET sid == flightResult'.searchId
          IN  IF flightResult'.success
              THEN /\ MapHas(flightSearches, sid)
                   /\ \E f \in Flights : <<sid, f>> \in flightLog.seated
                   /\ Len(bookings') = Len(bookings) + 1
                   /\ bookings'[Len(bookings')].passengers =
                          flightSearches[sid].passengers
                   /\ bookings'[Len(bookings')].passengers =
                          Len(flightSearches[sid].selectedSeats)
              ELSE /\ bookings' = bookings
                   /\ flightSearches' = flightSearches]_vars

\* C25 witness: a booking was refused for its passenger count on a search
\* with a flight and seats selected, and the search is still stored.
C25_Witness ==
    /\ flightResult.op = "createBooking"
    /\ ~flightResult.success
    /\ flightResult.message = "Passengers do not match selected seats"
    /\ MapHas(flightSearches, flightResult.searchId)
    /\ bookings = <<>>

\* C29: a selectSeats call that fails leaves every search as it was (its
\* selectedFlightId and selectedSeats included); a call that succeeds stores
\* the requested list, every seat of which is in the seat map of the
\* selected flight and not occupied, and changes nothing else of the search.
C29_FailedSelectSeatsChangesNothing ==
    [][(flightResult'.op = "selectSeats"
          /\ <<flightResult, flightSearches>>' # <<flightResult, flightSearches>>) =>
          LET s == flightResult'.searchId
              f == flightSearches[s].selectedFlightId
              seatIds == flightResult'.selectedSeats
          IN  IF flightResult'.success
              THEN /\ flightSearches' =
                          [flightSearches EXCEPT ![s].selectedSeats = seatIds]
                   /\ f \in Flights
                   /\ \A j \in 1..Len(seatIds) :
                          seatIds[j] \in Seats /\ ~Occupied(f, seatIds[j])
              ELSE flightSearches' = flightSearches]_vars

\* C29 witness: seats were stored, and a later selectSeats call was refused
\* for an occupied seat; the stored seats are still there.
C29_Witness ==
    /\ flightResult.op = "selectSeats"
    /\ ~flightResult.success
    /\ flightResult.message = "Seat is already taken"
    /\ MapHas(flightSearches, flightResult.searchId)
    /\ flightSearches[flightResult.searchId].selectedSeats \notin {NoSeats, <<>>}

\* C27: every stored hotel booking names a room of the booked hotel, a
\* quantity that is at least 1 and at most the room's availability, rooms
\* that hold the searched number of guests, and the price
\* pricePerNight x nights x quantity.
C27_HotelBookingIsConsistent ==
    \A i \in 1..Len(hotelBookings) :
        LET b == hotelBookings[i]
        IN  /\ b.hotel \in Hotels
            /\ FindRoom(b.hotel, b.room) = b.room
            /\ b.roomQuantity >= 1
            /\ b.roomQuantity <= Rooms[b.room].available
            /\ b.roomQuantity * Rooms[b.room].maxGuests >= b.searched
            /\ b.totalPrice = Rooms[b.room].pricePerNight * b.nights * b.roomQuantity

\* C27 witness: a booking of a search on which selectHotel was called after
\* selectRoom had stored a room, for two rooms and two guests.
C27_Witness ==
    \E i \in 1..Len(hotelBookings) :
        /\ hotelBookings[i].searchId \in hotelLog.hotelAfterRoom
        /\ hotelBookings[i].roomQuantity = 2
        /\ hotelBookings[i].searched = 2

\* C28 (as claimed): a searchHotels call whose check-out date is not later
\* than its check-in date is refused with the check-out message and stores
\* no search.
C28_CheckOutMustBeLater ==
    [][\A city \in Cities, checkIn \in 1..MaxDay, checkOut \in 1..MaxDay,
         guests \in 1..MaxGuests :
          (searchHotels(city, checkIn, checkOut, guests) /\ checkOut <= checkIn) =>
              /\ ~hotelResult'.success
              /\ hotelResult'.message = CheckOutMessage
              /\ hotelSearches' = hotelSearches]_vars

\* the search ids of the stored bookings
Booked(bs) == {bs[i].searchId : i \in 1..Len(bs)}

\* the call failed because the search was not found: selectFlight and
\* selectHotel return undefined, the others the message
SearchNotFound(r) ==
    /\ ~r.success
    /\ r.message = IF r.op \in {"selectFlight", "selectHotel"}
                   THEN Absent ELSE "Search session not found"

\* C26: no two stored bookings are of the same search; a successful
\* createBooking or createHotelBooking deletes its search; and every select
\* or booking call made with the id of a booked search fails as search not
\* found and stores no booking.
C26_OneBookingPerSearch ==
    /\ [](/\ Cardinality(Booked(bookings)) = Len(bookings)
          /\ Cardinality(Booked(hotelBookings)) = Len(hotelBookings)
          /\ Booked(bookings) \cap DOMAIN flightSearches = {}
          /\ Booked(hotelBookings) \cap DOMAIN hotelSearches = {})
    /\ [][(/\ flightResult' # flightResult
            /\ flightResult'.op \in {"selectFlight", "selectSeats", "createBooking"}
            /\ flightResult'.searchId \in Booked(bookings))
           => SearchNotFound(flightResult') /\ bookings' = bookings]_vars
    /\ [][(/\ hotelResult' # hotelResult
            /\ hotelResult'.op \in {"selectHotel", "selectRoom", "createHotelBooking"}
            /\ hotelResult'.searchId \in Booked(hotelBookings))
           => SearchNotFound(hotelResult') /\ hotelBookings' = hotelBookings]_vars

\* C26 witness: a flight and a hotel are booked, and a second booking call
\* on each booked search was refused as search not found.
C26_Witness ==
    /\ Len(bookings) = 1
    /\ Len(hotelBookings) = 1
    /\ flightResult.op = "createBooking"
    /\ flightResult.searchId = bookings[1].searchId
    /\ SearchNotFound(flightResult)
    /\ hotelResult.op = "createHotelBooking"
    /\ hotelResult.searchId = hotelBookings[1].searchId
    /\ SearchNotFound(hotelResult)

====
